---- MODULE Spec2Model ----
(***************************************************************************)
(* Model of shared/strategy_core/src/lib.rs: validate_period,              *)
(* moving_average, rsi and atr.                                            *)
(*                                                                         *)
(* f64 is modelled as a binary floating-point format with the IEEE 754     *)
(* rules (round to nearest, ties to even, gradual underflow, overflow to   *)
(* infinity, NaN) at a reduced width: Precision significand bits and an    *)
(* exponent range of -FracBits .. EMax.  A finite value is the integer     *)
(* number of units of the smallest subnormal; +inf, -inf and NaN are the   *)
(* three integers just outside the finite range.  The two zeros of f64     *)
(* are one value: they compare equal and nothing here divides by zero.     *)
(* usize is modelled as an unsigned integer of UsizeBits bits.             *)
(***************************************************************************)
EXTENDS Integers, Sequences, FiniteSets, TLC

\* ---------------------------------------------------------------- bounds
Precision == 5
FracBits  == 3
EMax      == 6
UsizeBits == 3
MaxLen    == 4

\* ---------------------------------------------------------- f64 (reduced)
One       == 2^FracBits
MaxShift  == EMax + FracBits - (Precision - 1)
MaxFinite == (2^Precision - 1) * 2^MaxShift
PosInf    == MaxFinite + 1
NegInf    == 0 - PosInf
NaN       == MaxFinite + 2

IsFinite(x) == x >= 0 - MaxFinite /\ x <= MaxFinite
IsNaN(x)    == x = NaN
Sgn(x)      == IF x < 0 THEN 0 - 1 ELSE 1
AbsInt(x)   == IF x < 0 THEN 0 - x ELSE x

RECURSIVE ShiftOf(_, _)
\* number of low bits dropped so that a/d fits in Precision bits
ShiftOf(a, d) == IF a < d * 2^Precision THEN 0 ELSE 1 + ShiftOf(a, 2 * d)

\* the representable value nearest to the rational num/den (den > 0),
\* ties to even, overflow to the infinity of the same sign
Round(num, den) ==
    LET a  == AbsInt(num)
        j  == ShiftOf(a, den)
        d  == den * 2^j
        q  == a \div d
        r  == a % d
        up == 2 * r > d \/ (2 * r = d /\ q % 2 = 1)
        k  == (IF up THEN q + 1 ELSE q) * 2^j
    IN  IF k > MaxFinite THEN Sgn(num) * PosInf ELSE Sgn(num) * k

FNeg(a) == IF IsNaN(a) THEN NaN ELSE 0 - a

FAdd(a, b) ==
    IF IsNaN(a) \/ IsNaN(b) THEN NaN
    ELSE IF ~IsFinite(a) /\ ~IsFinite(b) THEN (IF a = b THEN a ELSE NaN)
    ELSE IF ~IsFinite(a) THEN a
    ELSE IF ~IsFinite(b) THEN b
    ELSE Round(a + b, 1)

FSub(a, b) == FAdd(a, FNeg(b))

FMul(a, b) ==
    IF IsNaN(a) \/ IsNaN(b) THEN NaN
    ELSE IF ~IsFinite(a) \/ ~IsFinite(b)
         THEN (IF a = 0 \/ b = 0 THEN NaN ELSE Sgn(a) * Sgn(b) * PosInf)
    ELSE Round(a * b, One)

FDiv(a, b) ==
    IF IsNaN(a) \/ IsNaN(b) THEN NaN
    ELSE IF ~IsFinite(a) /\ ~IsFinite(b) THEN NaN
    ELSE IF ~IsFinite(a) THEN Sgn(a) * Sgn(b) * PosInf
    ELSE IF ~IsFinite(b) THEN 0
    ELSE IF b = 0 THEN (IF a = 0 THEN NaN ELSE Sgn(a) * PosInf)
    ELSE Round(a * One * Sgn(b), AbsInt(b))

\* f64::max: a NaN operand is ignored
FMax(a, b) == IF IsNaN(a) THEN b ELSE IF IsNaN(b) THEN a
              ELSE IF a >= b THEN a ELSE b

FAbs(a) == IF IsNaN(a) THEN NaN ELSE AbsInt(a)

FGe(a, b) == ~IsNaN(a) /\ ~IsNaN(b) /\ a >= b
FEq(a, b) == ~IsNaN(a) /\ ~IsNaN(b) /\ a = b

\* `n as f64` and float literals
FromInt(n) == Round(n * One, 1)

Zero    == FromInt(0)
Fifty   == FromInt(50)
Hundred == FromInt(100)

\* --------------------------------------------------------------- usize
UsizeMax == 2^UsizeBits - 1
Usize    == 0 .. UsizeMax

\* a + b wraps modulo 2^UsizeBits when the build has no overflow checks
WrappingAdd(a, b) == (a + b) % (2^UsizeBits)
AddOverflows(a, b) == a + b > UsizeMax

\* -------------------------------------------------------------- results
Pending  == [tag |-> "pending", msg |-> "", val |-> 0]
NoneRes  == [tag |-> "None", msg |-> "", val |-> 0]
Some(v)  == [tag |-> "Some", msg |-> "", val |-> v]
Err(m)   == [tag |-> "Err", msg |-> m, val |-> 0]
Panic(m) == [tag |-> "panic", msg |-> m, val |-> 0]

PeriodMsg == "period must be greater than zero"
LengthMsg == "high, low, close must have the same non-zero length"
AddPanic  == "attempt to add with overflow"
IndexPanic == "index out of bounds"

\* ------------------------------------------------------- pure functions
\* a period check that rejects nothing
validate_period_accepting(p) == Pending

validate_period(p) == IF p = 0 THEN Err(PeriodMsg) ELSE Pending

RECURSIVE SumSeq(_, _)
\* slice.iter().sum(): left to right from the accumulator acc
SumSeq(s, acc) == IF s = << >> THEN acc
                  ELSE SumSeq(Tail(s), FAdd(acc, Head(s)))

\* the slice &prices[..period], the oldest elements
LeadingSlice(ps, p) == SubSeq(ps, 1, p)

\* &prices[prices.len() - period ..]
TrailingSlice(ps, p) == SubSeq(ps, Len(ps) - p + 1, Len(ps))

moving_average(ps, p) ==
    IF validate_period(p) # Pending THEN validate_period(p)
    ELSE IF Len(ps) < p THEN NoneRes
    ELSE Some(FDiv(SumSeq(TrailingSlice(ps, p), Zero), FromInt(p)))

\* the recurrence with the weight period instead of period - 1
WilderFullWeight(avg, x, pf) == FDiv(FAdd(FMul(pf, avg), x), pf)

\* Wilder's recurrence ((period - 1) * avg + x) / period
Wilder(avg, x, pf) == FDiv(FAdd(FMul(FSub(pf, One), avg), x), pf)

\* a final mapping that is neutral whenever avg_loss is zero
FinalMappingNeutral(g, l) ==
    IF FEq(l, Zero)
    THEN Fifty
    ELSE FSub(Hundred, FDiv(Hundred, FAdd(One, FDiv(g, l))))

\* a final mapping that divides by rs instead of 1 + rs
FinalMappingNoOffset(g, l) ==
    IF FEq(l, Zero)
    THEN (IF FEq(g, Zero) THEN Fifty ELSE Hundred)
    ELSE FSub(Hundred, FDiv(Hundred, FDiv(g, l)))

\* the final mapping of rsi
FinalMapping(g, l) ==
    IF FEq(l, Zero)
    THEN (IF FEq(g, Zero) THEN Fifty ELSE Hundred)
    ELSE FSub(Hundred, FDiv(Hundred, FAdd(One, FDiv(g, l))))

\* the true range of bar i (0-based, i >= 1)
TrueRange(h, l, c, i) ==
    LET tr1 == FSub(h[i + 1], l[i + 1])
        tr2 == FAbs(FSub(h[i + 1], c[i]))
        tr3 == FAbs(FSub(l[i + 1], c[i]))
    IN  FAbs(FMax(FMax(tr1, tr2), tr3))

\* a length check without the len == 0 test
LengthsEqual(h, l, c) == ~(Len(l) # Len(h) \/ Len(c) # Len(h))

LengthsOk(h, l, c) == ~(Len(h) = 0 \/ Len(l) # Len(h) \/ Len(c) # Len(h))

\* --------------------------------------------------------------- inputs
\* finite prices: the two extremes, the most negative power of two, 0 and 1
PriceValues == {0 - MaxFinite, 0 - One * 2^EMax, Zero, One, MaxFinite}

SeqsUpTo(S, n) == UNION {[1 .. k -> S] : k \in 0 .. n}

PriceSeqs == SeqsUpTo(PriceValues, MaxLen)

\* bars <<high, low, close>>: a range that the format cannot add three times
\* exactly, a range of 1, a range that overflows, and an inverted bar
Bars == {<<Round(11 * One, 4), Zero, Zero>>,
         <<One, Zero, Zero>>,
         <<MaxFinite, 0 - MaxFinite, Zero>>,
         <<Zero, One, One>>}

Column(bs, c) == [k \in 1 .. Len(bs) |-> bs[k][c]]
Filled(n) == [k \in 1 .. n |-> One]

\* aligned bars, or three series of independent lengths
OhlcInputs ==
    {<<Column(bs, 1), Column(bs, 2), Column(bs, 3)>> : bs \in SeqsUpTo(Bars, MaxLen)}
    \cup {<<Filled(a), Filled(b), Filled(c)>> :
              a \in 0 .. MaxLen, b \in 0 .. MaxLen, c \in 0 .. MaxLen}

\* ---------------------------------------------------------------- state
VARIABLES op, prices, high, low, close, period, overflow_checks,
          pc, i, avg_gain, avg_loss, trs, atr, result

vars == <<op, prices, high, low, close, period, overflow_checks,
          pc, i, avg_gain, avg_loss, trs, atr, result>>

inputs == <<op, prices, high, low, close, period, overflow_checks>>

Init ==
    /\ op \in {"moving_average", "rsi", "atr"}
    /\ period \in Usize
    /\ overflow_checks \in BOOLEAN
    /\ IF op = "atr"
       THEN /\ prices = << >>
            /\ \E t \in OhlcInputs : high = t[1] /\ low = t[2] /\ close = t[3]
       ELSE /\ prices \in PriceSeqs
            /\ high = << >> /\ low = << >> /\ close = << >>
    /\ pc = "validate"
    /\ i = 0
    /\ avg_gain = Zero
    /\ avg_loss = Zero
    /\ trs = << >>
    /\ atr = Zero
    /\ result = Pending

Return(r) == result' = r /\ pc' = "done"

\* ------------------------------------------------------- moving_average
MovingAverage ==
    /\ op = "moving_average" /\ pc = "validate"
    /\ Return(moving_average(prices, period))
    /\ UNCHANGED <<inputs, i, avg_gain, avg_loss, trs, atr>>

\* ------------------------------------------------------------------ rsi
RsiValidate ==
    /\ op = "rsi" /\ pc = "validate"
    /\ IF validate_period(period) # Pending
       THEN Return(validate_period(period))
       ELSE pc' = "guard" /\ UNCHANGED result
    /\ UNCHANGED <<inputs, i, avg_gain, avg_loss, trs, atr>>

\* if prices.len() < period + 1 { return Ok(None); }
RsiGuard ==
    /\ op = "rsi" /\ pc = "guard"
    /\ IF overflow_checks /\ AddOverflows(period, 1)
       THEN Return(Panic(AddPanic)) /\ UNCHANGED <<i, avg_gain, avg_loss>>
       ELSE IF Len(prices) < WrappingAdd(period, 1)
       THEN Return(NoneRes) /\ UNCHANGED <<i, avg_gain, avg_loss>>
       ELSE /\ pc' = "seed"
            /\ i' = 1
            /\ avg_gain' = Zero
            /\ avg_loss' = Zero
            /\ UNCHANGED result
    /\ UNCHANGED <<inputs, trs, atr>>

\* one iteration of: for i in 1..=period
RsiSeedStep ==
    /\ op = "rsi" /\ pc = "seed" /\ i <= period
    /\ IF i >= Len(prices)
       THEN Return(Panic(IndexPanic)) /\ UNCHANGED <<i, avg_gain, avg_loss>>
       ELSE LET delta == FSub(prices[i + 1], prices[i])
            IN  /\ IF FGe(delta, Zero)
                   THEN avg_gain' = FAdd(avg_gain, delta) /\ UNCHANGED avg_loss
                   ELSE avg_loss' = FSub(avg_loss, delta) /\ UNCHANGED avg_gain
                /\ i' = i + 1
                /\ UNCHANGED <<pc, result>>
    /\ UNCHANGED <<inputs, trs, atr>>

\* avg_gain /= period_f64; avg_loss /= period_f64; and the start of
\* the range period + 1..prices.len()
RsiSeedDivide ==
    /\ op = "rsi" /\ pc = "seed" /\ i > period
    /\ IF overflow_checks /\ AddOverflows(period, 1)
       THEN Return(Panic(AddPanic)) /\ UNCHANGED <<i, avg_gain, avg_loss>>
       ELSE /\ avg_gain' = FDiv(avg_gain, FromInt(period))
            /\ avg_loss' = FDiv(avg_loss, FromInt(period))
            /\ i' = WrappingAdd(period, 1)
            /\ pc' = "smooth"
            /\ UNCHANGED result
    /\ UNCHANGED <<inputs, trs, atr>>

\* one iteration of: for i in period + 1..prices.len()
RsiSmoothStep ==
    /\ op = "rsi" /\ pc = "smooth" /\ i < Len(prices)
    /\ IF i = 0
       THEN Return(Panic(IndexPanic)) /\ UNCHANGED <<i, avg_gain, avg_loss>>
       ELSE LET delta == FSub(prices[i + 1], prices[i])
                gain  == FMax(delta, Zero)
                loss  == FMax(FNeg(delta), Zero)
            IN  /\ avg_gain' = Wilder(avg_gain, gain, FromInt(period))
                /\ avg_loss' = Wilder(avg_loss, loss, FromInt(period))
                /\ i' = i + 1
                /\ UNCHANGED <<pc, result>>
    /\ UNCHANGED <<inputs, trs, atr>>

RsiReturn ==
    /\ op = "rsi" /\ pc = "smooth" /\ i >= Len(prices)
    /\ Return(Some(FinalMapping(avg_gain, avg_loss)))
    /\ UNCHANGED <<inputs, i, avg_gain, avg_loss, trs, atr>>

\* ------------------------------------------------------------------ atr
AtrValidate ==
    /\ op = "atr" /\ pc = "validate"
    /\ IF validate_period(period) # Pending
       THEN Return(validate_period(period))
       ELSE pc' = "lengths" /\ UNCHANGED result
    /\ UNCHANGED <<inputs, i, avg_gain, avg_loss, trs, atr>>

AtrLengths ==
    /\ op = "atr" /\ pc = "lengths"
    /\ IF ~LengthsOk(high, low, close)
       THEN Return(Err(LengthMsg))
       ELSE pc' = "guard" /\ UNCHANGED result
    /\ UNCHANGED <<inputs, i, avg_gain, avg_loss, trs, atr>>

\* if len < period + 1 { return Ok(None); }
AtrGuard ==
    /\ op = "atr" /\ pc = "guard"
    /\ IF overflow_checks /\ AddOverflows(period, 1)
       THEN Return(Panic(AddPanic)) /\ UNCHANGED <<i, trs>>
       ELSE IF Len(high) < WrappingAdd(period, 1)
       THEN Return(NoneRes) /\ UNCHANGED <<i, trs>>
       ELSE /\ pc' = "ranges"
            /\ i' = 1
            /\ trs' = << >>
            /\ UNCHANGED result
    /\ UNCHANGED <<inputs, avg_gain, avg_loss, atr>>

\* one iteration of: for i in 1..len
AtrRangeStep ==
    /\ op = "atr" /\ pc = "ranges" /\ i < Len(high)
    /\ trs' = Append(trs, TrueRange(high, low, close, i))
    /\ i' = i + 1
    /\ UNCHANGED <<inputs, pc, avg_gain, avg_loss, atr, result>>

\* if trs.len() < period { return Ok(None); } and the seed average;
\* i counts the true ranges consumed so far
AtrSeed ==
    /\ op = "atr" /\ pc = "ranges" /\ i >= Len(high)
    /\ IF Len(trs) < period
       THEN Return(NoneRes) /\ UNCHANGED <<i, atr>>
       ELSE /\ atr' = FDiv(SumSeq(SubSeq(trs, 1, period), Zero), FromInt(period))
            /\ i' = period
            /\ pc' = "smooth"
            /\ UNCHANGED result
    /\ UNCHANGED <<inputs, avg_gain, avg_loss, trs>>

\* one iteration of: for tr in trs.iter().skip(period)
AtrSmoothStep ==
    /\ op = "atr" /\ pc = "smooth" /\ i < Len(trs)
    /\ atr' = Wilder(atr, trs[i + 1], FromInt(period))
    /\ i' = i + 1
    /\ UNCHANGED <<inputs, pc, avg_gain, avg_loss, trs, result>>

AtrReturn ==
    /\ op = "atr" /\ pc = "smooth" /\ i >= Len(trs)
    /\ Return(Some(atr))
    /\ UNCHANGED <<inputs, i, avg_gain, avg_loss, trs, atr>>

Next ==
    \/ MovingAverage
    \/ RsiValidate \/ RsiGuard \/ RsiSeedStep \/ RsiSeedDivide
    \/ RsiSmoothStep \/ RsiReturn
    \/ AtrValidate \/ AtrLengths \/ AtrGuard \/ AtrRangeStep \/ AtrSeed
    \/ AtrSmoothStep \/ AtrReturn

Spec == Init /\ [][Next]_vars

TypeOK ==
    /\ pc \in {"validate", "guard", "lengths", "seed", "ranges", "smooth", "done"}
    /\ result.tag \in {"pending", "None", "Some", "Err", "panic"}
    /\ (pc = "done") = (result # Pending)

\* ------------------------------------------------- vocabulary of claims
Done == pc = "done"

\* the series the call was given enough of, in unbounded arithmetic
StrictlyDecreasing(s) == \A k \in 2 .. Len(s) : s[k] < s[k - 1]
StrictlyIncreasing(s) == \A k \in 2 .. Len(s) : s[k] > s[k - 1]
NoNegativeDelta(s)    == \A k \in 2 .. Len(s) : s[k] >= s[k - 1]
SomePositiveDelta(s)  == \E k \in 2 .. Len(s) : s[k] > s[k - 1]
ConstantSeries(s)     == \A k \in 2 .. Len(s) : s[k] = s[k - 1]

\* the three series are positionally aligned and not empty
SameNonZeroLength(h, l, c) == Len(h) > 0 /\ Len(l) = Len(h) /\ Len(c) = Len(h)

RECURSIVE SumRange(_, _, _)
\* s[a] + ... + s[b], added in index order
SumRange(s, a, b) == IF a > b THEN Zero ELSE FAdd(SumRange(s, a, b - 1), s[b])

\* every bar 1 .. len-1 has the true range c
ConstantRange(c) ==
    \A k \in 1 .. Len(high) - 1 : TrueRange(high, low, close, k) = c

\* c, 2c, ..., n*c are all representable, so adding c up n times is exact
ExactMultiples(c, n) ==
    IsFinite(c) /\ \A k \in 1 .. n : Round(k * c, 1) = k * c

\* ------------------------------------------------------------------- C1
\* C1: with period = 0 every operation ends with the InvalidArgument error
\* "period must be greater than zero", whatever the data (empty, too short,
\* or for atr empty or of mismatched lengths), and no step after the period
\* check is ever taken.
C1_PeriodZeroFails ==
    period = 0 =>
        /\ pc \in {"validate", "done"}
        /\ Done => result = Err(PeriodMsg)

C1_Witness ==
    /\ Done /\ op = "atr" /\ period = 0
    /\ Len(high) = 0 /\ Len(low) # Len(close)
    /\ result = Err(PeriodMsg)

\* ------------------------------------------------------------------- C2
\* C2: for every period n >= 1 the operation ends with None or a value,
\* never an error: moving_average gives None exactly when len < n, rsi
\* exactly when len < n + 1, and atr on equal-length non-empty series exactly
\* when len - 1 < n.
C2_NoneIffShort ==
    (Done /\ period >= 1) =>
        /\ op = "moving_average" =>
              /\ result.tag \in {"None", "Some"}
              /\ (result = NoneRes) = (Len(prices) < period)
        /\ op = "rsi" =>
              /\ result.tag \in {"None", "Some"}
              /\ (result = NoneRes) = (Len(prices) < period + 1)
        /\ (op = "atr" /\ SameNonZeroLength(high, low, close)) =>
              /\ result.tag \in {"None", "Some"}
              /\ (result = NoneRes) = (Len(high) - 1 < period)

\* ------------------------------------------------------------------- C3
\* C3: for every period n >= 1, atr on an empty high or on a low or close of
\* another length than high ends with the InvalidArgument length error, never
\* with None or a value, whatever the lengths are compared with n.
C3_LengthErrorFirst ==
    (Done /\ op = "atr" /\ period >= 1 /\ ~SameNonZeroLength(high, low, close)) =>
        result = Err(LengthMsg)

C3_Witness ==
    /\ Done /\ op = "atr" /\ period = UsizeMax
    /\ Len(high) = 2 /\ Len(low) = 1 /\ Len(close) = 2
    /\ result = Err(LengthMsg)

\* ------------------------------------------------------------------- C4
\* C4: for every period n >= 1 and len(P) >= n, moving_average(P, n) is the
\* sum of the last n elements of P, added oldest first, divided by n; an
\* older element prepended to P does not change it; [1,2,3,4,5] with n = 3
\* gives 4.
C4_TrailingMean ==
    /\ (Done /\ op = "moving_average" /\ period >= 1 /\ Len(prices) >= period) =>
          /\ result = Some(FDiv(SumRange(prices, Len(prices) - period + 1,
                                         Len(prices)), FromInt(period)))
          /\ \A x \in PriceValues :
                 moving_average(<<x>> \o prices, period) = result
    /\ moving_average(<<FromInt(1), FromInt(2), FromInt(3), FromInt(4),
                        FromInt(5)>>, 3) = Some(FromInt(4))
    /\ moving_average(<<FromInt(0), FromInt(1), FromInt(2), FromInt(3),
                        FromInt(4), FromInt(5)>>, 3) = Some(FromInt(4))

C4_Witness ==
    /\ Done /\ op = "moving_average" /\ period = 2
    /\ prices = <<MaxFinite, Zero, One, One>>
    /\ result = Some(One)

\* ------------------------------------------------------------------- C5
\* C5: for every period n >= 1 and len(P) >= n + 1, avgGain and avgLoss are
\* non-negative numbers throughout the seed and smoothing phases and rsi
\* returns a value v with 0 <= v <= 100 (never NaN).
C5_RsiInRange ==
    (op = "rsi" /\ period >= 1 /\ Len(prices) >= period + 1) =>
        /\ pc \in {"seed", "smooth", "done"} =>
              FGe(avg_gain, Zero) /\ FGe(avg_loss, Zero)
        /\ Done => /\ result.tag = "Some"
                   /\ FGe(result.val, Zero)
                   /\ FGe(Hundred, result.val)

\* ------------------------------------------------------------------- C6
\* C6: for every period n >= 1 and every strictly decreasing P with
\* len(P) > n, rsi(P, n) returns exactly 0, with avgGain = 0 and
\* avgLoss > 0 at the final mapping.
C6_DecreasingIsZero ==
    (Done /\ op = "rsi" /\ period >= 1 /\ Len(prices) > period
          /\ StrictlyDecreasing(prices)) =>
        /\ FEq(avg_gain, Zero)
        /\ FGe(avg_loss, Zero) /\ ~FEq(avg_loss, Zero)
        /\ result = Some(Zero)

\* ------------------------------------------------------------------- C7
\* C7 as stated: for every period n >= 1 and every P with len(P) > n and no
\* negative delta, avgLoss is 0 at the final mapping and rsi returns exactly
\* 100 when some delta is positive and exactly 50 when every delta is zero.
C7_NoLossOriginal ==
    (Done /\ op = "rsi" /\ period >= 1 /\ Len(prices) > period
          /\ NoNegativeDelta(prices)) =>
        /\ FEq(avg_loss, Zero)
        /\ SomePositiveDelta(prices) => result = Some(Hundred)
        /\ ConstantSeries(prices) => result = Some(Fifty)

\* C7 amended: for every period n >= 1 and every P with len(P) > n and no
\* negative delta, avgLoss is 0 at the final mapping and rsi returns exactly
\* 100 when the final avgGain is not zero, which is so for every strictly
\* increasing series, and exactly 50 when the final avgGain is zero, which is
\* so for every constant series and also when the smoothing has brought the
\* earlier gains down to zero (rsi([0, 1, 1], 1) is 50).
C7_NoLossAmended ==
    (Done /\ op = "rsi" /\ period >= 1 /\ Len(prices) > period
          /\ NoNegativeDelta(prices)) =>
        /\ FEq(avg_loss, Zero)
        /\ result = Some(IF FEq(avg_gain, Zero) THEN Fifty ELSE Hundred)
        /\ StrictlyIncreasing(prices) => result = Some(Hundred)
        /\ ConstantSeries(prices) => result = Some(Fifty)

C7_Witness ==
    /\ Done /\ op = "rsi" /\ period = 2 /\ Len(prices) = 4
    /\ NoNegativeDelta(prices) /\ SomePositiveDelta(prices)
    /\ ~StrictlyIncreasing(prices)
    /\ result = Some(Hundred)

\* ------------------------------------------------------------------- C8
\* C8 as stated: for every period n >= 1 and equal-length series with
\* len >= n + 1 whose true range is the same number c on every bar, atr
\* returns exactly c.
C8_ConstantRangeOriginal ==
    (Done /\ op = "atr" /\ period >= 1 /\ SameNonZeroLength(high, low, close)
          /\ Len(high) >= period + 1
          /\ IsFinite(TrueRange(high, low, close, 1))
          /\ ConstantRange(TrueRange(high, low, close, 1))) =>
        result = Some(TrueRange(high, low, close, 1))

\* C8 amended: under the same conditions atr returns exactly c provided
\* that c, 2c, ..., n*c are all exactly representable, so that neither the
\* seed sum nor (n-1)*atr + tr is rounded or overflows.
C8_ConstantRangeAmended ==
    (Done /\ op = "atr" /\ period >= 1 /\ SameNonZeroLength(high, low, close)
          /\ Len(high) >= period + 1
          /\ ConstantRange(TrueRange(high, low, close, 1))
          /\ ExactMultiples(TrueRange(high, low, close, 1), period)) =>
        result = Some(TrueRange(high, low, close, 1))

C8_Witness ==
    /\ Done /\ op = "atr" /\ period = 2 /\ Len(high) = 4
    /\ SameNonZeroLength(high, low, close)
    /\ ConstantRange(One)
    /\ result = Some(One)

\* ------------------------------------------------------------------- C9
\* the final mapping took the branch rs = avg_gain / avg_loss
RsBranch ==
    Done /\ op = "rsi" /\ result.tag = "Some" /\ ~FEq(avg_loss, Zero)

\* C9 as stated: whenever rsi reaches the final mapping with avgLoss != 0,
\* the value returned is strictly greater than 0 and strictly less than 100
\* (stated here for finite averages only, so that a violation does not rest
\* on an overflow).
C9_OpenIntervalOriginal ==
    (RsBranch /\ IsFinite(avg_gain) /\ IsFinite(avg_loss)) =>
        /\ FGe(result.val, Zero) /\ ~FEq(result.val, Zero)
        /\ FGe(Hundred, result.val) /\ ~FEq(result.val, Hundred)

\* C9 amended: whenever rsi reaches the final mapping with avgLoss != 0,
\* the value returned lies in the closed interval [0, 100], and is exactly 0
\* when avgGain is 0; the one exception is an average that is NaN, or both
\* averages infinite, after an overflow, where the value returned is NaN.
C9_ClosedIntervalAmended ==
    RsBranch =>
        IF IsNaN(avg_gain) \/ IsNaN(avg_loss)
              \/ (avg_gain = PosInf /\ avg_loss = PosInf)
        THEN IsNaN(result.val)
        ELSE /\ FGe(result.val, Zero) /\ FGe(Hundred, result.val)
             /\ FEq(avg_gain, Zero) => result.val = Zero

C9_Witness ==
    /\ RsBranch /\ Len(prices) > period + 1
    /\ IsFinite(avg_gain) /\ IsFinite(avg_loss)
    /\ result.val > Zero /\ result.val < Hundred

\* ------------------------------------------------------------------ C10
\* C10: for every representable period >= 1, the largest included, rsi and
\* atr called with valid data shorter than period + 1 return None: the guard
\* behaves as the unbounded comparison len < period + 1.
C10_GuardAsUnbounded ==
    (Done /\ period >= 1) =>
        /\ (op = "rsi" /\ Len(prices) < period + 1) => result = NoneRes
        /\ (op = "atr" /\ SameNonZeroLength(high, low, close)
                /\ Len(high) < period + 1) => result = NoneRes

====
